---- MODULE Spec2Model ----
(***************************************************************************)
(* Model of the curation plugin (plugins/curation/server/__init__.py).     *)
(*                                                                         *)
(* The persisted folder document is `db`.  A PUT /folder/:id/curation      *)
(* request is the handler CuratedFolder.setCuration: the loadmodel         *)
(* decorator loads the folder document, the body mutates the loaded copy   *)
(* and self.model('folder').save(folder) writes the whole document back.   *)
(* Spec runs one request at a time; SpecConc runs two request threads      *)
(* whose load and save steps interleave.                                   *)
(*                                                                         *)
(* Timeline entries carry userId, text, oldEnabled, oldStatus, enabled and *)
(* status; userLogin (a function of the user) and the utcnow() timestamp   *)
(* are left out.  Actors are authenticated users.                          *)
(***************************************************************************)
EXTENDS Integers, Sequences, FiniteSets, TLC

\* ---------------------------------------------------------------- bounds
\* requests are accepted while the persisted timeline is shorter than this
MaxTimeline == 2
\* SpecConc: number of requests started in one behaviour
MaxConcCalls == 2
\* SpecFlow: requests are accepted while the persisted timeline is shorter
\* than this
MaxFlowTimeline == 4
\* SpecFlow: number of consecutive transitions kept in hist.calls
MaxWindow == 3

\* ------------------------------------------------------------- constants
CONSTRUCTION == "construction"
REQUESTED == "requested"
APPROVED == "approved"

\* AccessType.NONE / READ / WRITE / ADMIN of girder.constants
AccessNone == -1
AccessRead == 0
AccessWrite == 1
AccessAdmin == 2
Levels == {AccessNone, AccessRead, AccessWrite, AccessAdmin}

\* the recognised status values
Statuses == {CONSTRUCTION, REQUESTED, APPROVED}

\* a parameter that is not in params
Absent == "absent"
\* a status string that is none of the three recognised ones
OtherStatus == "other"
EnabledParams == {Absent, "true", "false"}
StatusParams == {Absent, CONSTRUCTION, REQUESTED, APPROVED, OtherStatus}

\* users: site administrators and regular users; NoId is a missing _id field
Admins == {"a1"}
NonAdmins == {"u1"}
Users == Admins \cup NonAdmins
NoId == "none"

\* entries of folder['access']['users'] + folder['access']['groups']
AccessEntries == {"u1", "g1"}
\* the access lists a folder starts with: the user entry at NONE or WRITE,
\* the group entry at READ or ADMIN
InitAccess ==
    {a \in [AccessEntries -> Levels] :
        /\ a["u1"] \in {AccessNone, AccessWrite}
        /\ a["g1"] \in {AccessRead, AccessAdmin}}

Procs == {1, 2}

VARIABLES db, last, pc, local, req, hist

vars == <<db, last, pc, local, req, hist>>

\* ---------------------------------------------------------------- helpers
\* DEFAULTS: the curation record of a folder that has none
DEFAULTS == [enabled |-> FALSE, status |-> CONSTRUCTION]

\* Resource.boolParam: the boolean a parameter string stands for
boolParam(s) == s = "true"

\* Resource.requireAdmin passes for site administrators only
isAdmin(user) == user \in Admins

\* loadmodel(model='folder', level=AccessType.READ)
CanRead(folder, user) ==
    \/ isAdmin(user)
    \/ folder.public
    \/ (user \in AccessEntries /\ folder.access[user] >= AccessRead)

\* the folder documents the model starts from: no curation record yet
NewFolder(public, access) ==
    [hasCuration |-> FALSE,
     enabled |-> DEFAULTS.enabled,
     status |-> DEFAULTS.status,
     enableUserId |-> NoId,
     requestUserId |-> NoId,
     reviewUserId |-> NoId,
     timeline |-> << >>,
     public |-> public,
     access |-> access]

\* getCuration: the stored record merged over the defaults
getCuration(folder) ==
    [enabled |-> IF folder.hasCuration THEN folder.enabled ELSE DEFAULTS.enabled,
     status |-> IF folder.hasCuration THEN folder.status ELSE DEFAULTS.status,
     timeline |-> folder.timeline]

\* _makeReadOnly: every entry at WRITE goes to READ
_makeReadOnly(folder) ==
    [folder EXCEPT !.access =
        [e \in AccessEntries |->
            IF folder.access[e] = AccessWrite THEN AccessRead
            ELSE folder.access[e]]]

\* variant: the test is the one of _makeReadOnly, so no entry is raised
_makeWriteable_wrongLevel(folder) ==
    [folder EXCEPT !.access =
        [e \in AccessEntries |->
            IF folder.access[e] = AccessWrite THEN AccessWrite
            ELSE folder.access[e]]]

\* _makeWriteable: every entry at READ goes to WRITE
_makeWriteable(folder) ==
    [folder EXCEPT !.access =
        [e \in AccessEntries |->
            IF folder.access[e] = AccessRead THEN AccessWrite
            ELSE folder.access[e]]]

\* variant: the entry is put in front of the list
_addTimeline_prepend(oldCuration, folder, user, text) ==
    [folder EXCEPT !.timeline = <<
        [userId |-> user,
         text |-> text,
         oldEnabled |-> oldCuration.enabled,
         oldStatus |-> oldCuration.status,
         enabled |-> folder.enabled,
         status |-> folder.status] >> \o @]

\* variant: the old values are read from the record after it was updated
_addTimeline_current(oldCuration, folder, user, text) ==
    [folder EXCEPT !.timeline = Append(@,
        [userId |-> user,
         text |-> text,
         oldEnabled |-> folder.enabled,
         oldStatus |-> folder.status,
         enabled |-> folder.enabled,
         status |-> folder.status])]

\* _addTimeline: old values from the copy taken at the start of the call,
\* new values from the record as it is now
_addTimeline(oldCuration, folder, user, text) ==
    [folder EXCEPT !.timeline = Append(@,
        [userId |-> user,
         text |-> text,
         oldEnabled |-> oldCuration.enabled,
         oldStatus |-> oldCuration.status,
         enabled |-> folder.enabled,
         status |-> folder.status])]

\* _sendMail on a call context c = [folder, mails, exc]: nothing without a
\* recipient; otherwise the template is rendered, the address looked up and
\* the mail handed over, any of which may raise (mailOK = FALSE)
_sendMail(c, userId, template, mailOK) ==
    IF c.exc \/ userId = NoId THEN c
    ELSE IF mailOK
         THEN [c EXCEPT !.mails = Append(@, [to |-> userId, template |-> template])]
         ELSE [c EXCEPT !.exc = TRUE]

\* ---------------------------------------------------- setCuration, by step
\* variant: only switching curation on asks for an administrator
enabledDenied_onlyEnable(user, pEnabled) ==
    pEnabled = "true" /\ ~isAdmin(user)

\* "if ENABLED in params: self.requireAdmin(user)"
enabledDenied(user, pEnabled) ==
    pEnabled # Absent /\ ~isAdmin(user)

\* "regular users can only do construction -> requested transition"
statusDenied(user, curStatus, pStatus) ==
    /\ pStatus # Absent
    /\ (curStatus # CONSTRUCTION \/ pStatus # REQUESTED)
    /\ ~isAdmin(user)

\* variant: the folder keeps its public flag
enableStep_keepPublic(c, old, user, enabled, oldEnabled) ==
    IF ~c.exc /\ enabled /\ ~oldEnabled
    THEN [c EXCEPT !.folder = _addTimeline(old,
            [c.folder EXCEPT !.enableUserId = user],
            user, "enabled curation")]
    ELSE c

\* variant: the enabling user is not recorded
enableStep_noUser(c, old, user, enabled, oldEnabled) ==
    IF ~c.exc /\ enabled /\ ~oldEnabled
    THEN [c EXCEPT !.folder = _addTimeline(old,
            [c.folder EXCEPT !.public = FALSE],
            user, "enabled curation")]
    ELSE c

\* admin enabling curation
enableStep(c, old, user, enabled, oldEnabled) ==
    IF ~c.exc /\ enabled /\ ~oldEnabled
    THEN [c EXCEPT !.folder = _addTimeline(old,
            [c.folder EXCEPT !.public = FALSE, !.enableUserId = user],
            user, "enabled curation")]
    ELSE c

\* variant: disabling drops the pending request
disableStep_reset(c, old, user, enabled, oldEnabled) ==
    IF ~c.exc /\ ~enabled /\ oldEnabled
    THEN [c EXCEPT !.folder = _addTimeline(old,
            [c.folder EXCEPT !.status = CONSTRUCTION],
            user, "disabled curation")]
    ELSE c

\* admin disabling curation
disableStep(c, old, user, enabled, oldEnabled) ==
    IF ~c.exc /\ ~enabled /\ oldEnabled
    THEN [c EXCEPT !.folder = _addTimeline(old, c.folder, user, "disabled curation")]
    ELSE c

\* variant: the block does not look at the status the call started with
requestStep_anyOld(c, old, user, enabled, oldStatus, status, mailOK) ==
    IF ~c.exc /\ enabled /\ status = REQUESTED
    THEN LET f == _addTimeline(old,
                    _makeReadOnly([c.folder EXCEPT !.requestUserId = user]),
                    user, "requested approval")
         IN _sendMail([c EXCEPT !.folder = f], f.enableUserId,
                      "curation.requested.mako", mailOK)
    ELSE c

\* user requesting approval
requestStep(c, old, user, enabled, oldStatus, status, mailOK) ==
    IF ~c.exc /\ enabled /\ oldStatus = CONSTRUCTION /\ status = REQUESTED
    THEN LET f == _addTimeline(old,
                    _makeReadOnly([c.folder EXCEPT !.requestUserId = user]),
                    user, "requested approval")
         IN _sendMail([c EXCEPT !.folder = f], f.enableUserId,
                      "curation.requested.mako", mailOK)
    ELSE c

\* variant: the reviewer is written to the requester's field as well
approveStep_overwrite(c, old, user, enabled, oldStatus, status, mailOK) ==
    IF ~c.exc /\ enabled /\ oldStatus = REQUESTED /\ status = APPROVED
    THEN LET f == _addTimeline(old,
                    [c.folder EXCEPT !.public = TRUE, !.reviewUserId = user,
                                     !.requestUserId = user],
                    user, "approved request")
         IN _sendMail([c EXCEPT !.folder = f], f.requestUserId,
                      "curation.approved.mako", mailOK)
    ELSE c

\* admin approving request
approveStep(c, old, user, enabled, oldStatus, status, mailOK) ==
    IF ~c.exc /\ enabled /\ oldStatus = REQUESTED /\ status = APPROVED
    THEN LET f == _addTimeline(old,
                    [c.folder EXCEPT !.public = TRUE, !.reviewUserId = user],
                    user, "approved request")
         IN _sendMail([c EXCEPT !.folder = f], f.requestUserId,
                      "curation.approved.mako", mailOK)
    ELSE c

\* admin rejecting request
rejectStep(c, old, user, enabled, oldStatus, status, mailOK) ==
    IF ~c.exc /\ enabled /\ oldStatus = REQUESTED /\ status = CONSTRUCTION
    THEN LET f == _addTimeline(old,
                    _makeWriteable([c.folder EXCEPT !.reviewUserId = user]),
                    user, "rejected request")
         IN _sendMail([c EXCEPT !.folder = f], f.requestUserId,
                      "curation.rejected.mako", mailOK)
    ELSE c

\* variant: the access levels are left as the request put them
reopenStep_noAccess(c, old, user, enabled, oldStatus, status) ==
    IF ~c.exc /\ enabled /\ oldStatus = APPROVED /\ status = CONSTRUCTION
    THEN [c EXCEPT !.folder = _addTimeline(old,
            [c.folder EXCEPT !.public = FALSE],
            user, "reopened folder")]
    ELSE c

\* admin reopening folder
reopenStep(c, old, user, enabled, oldStatus, status) ==
    IF ~c.exc /\ enabled /\ oldStatus = APPROVED /\ status = CONSTRUCTION
    THEN [c EXCEPT !.folder = _addTimeline(old,
            _makeWriteable([c.folder EXCEPT !.public = FALSE]),
            user, "reopened folder")]
    ELSE c

\* The body of setCuration on a loaded folder document.  The result is the
\* outcome ("ok": the body reached save; "denied": requireAdmin raised;
\* "error": _sendMail raised), the document as the body left it, and the
\* mails handed over.
setCuration(folder, user, pEnabled, pStatus, mailOK) ==
    LET f0 == [folder EXCEPT !.hasCuration = TRUE]
        oldCuration == [enabled |-> f0.enabled, status |-> f0.status]
        oldEnabled == f0.enabled
        f1 == IF pEnabled # Absent
              THEN [f0 EXCEPT !.enabled = boolParam(pEnabled)] ELSE f0
        enabled == f1.enabled
        oldStatus == f1.status
        f2 == IF pStatus # Absent THEN [f1 EXCEPT !.status = pStatus] ELSE f1
        status == f2.status
        c0 == [folder |-> f2, mails |-> << >>, exc |-> FALSE]
        c1 == enableStep(c0, oldCuration, user, enabled, oldEnabled)
        c2 == disableStep(c1, oldCuration, user, enabled, oldEnabled)
        c3 == requestStep(c2, oldCuration, user, enabled, oldStatus, status, mailOK)
        c4 == approveStep(c3, oldCuration, user, enabled, oldStatus, status, mailOK)
        c5 == rejectStep(c4, oldCuration, user, enabled, oldStatus, status, mailOK)
        c6 == reopenStep(c5, oldCuration, user, enabled, oldStatus, status)
    IN  IF enabledDenied(user, pEnabled)
        THEN [outcome |-> "denied", folder |-> f0, mails |-> << >>]
        ELSE IF statusDenied(user, f1.status, pStatus)
        THEN [outcome |-> "denied", folder |-> f1, mails |-> << >>]
        ELSE IF c6.exc
        THEN [outcome |-> "error", folder |-> c6.folder, mails |-> c6.mails]
        ELSE [outcome |-> "ok", folder |-> c6.folder, mails |-> c6.mails]

\* variant: the document is written back even when requireAdmin raised
save_always(stored, r) ==
    IF r.outcome \in {"ok", "denied"} THEN r.folder ELSE stored

\* self.model('folder').save(folder): the document replaces the stored one;
\* a call that raised never reaches it
save(stored, r) ==
    IF r.outcome = "ok" THEN r.folder ELSE stored

\* ------------------------------------------------------------------ state
\* what is recorded of the call that completed last: the actor, the
\* parameters, the document it loaded (pre), the response, the mails handed
\* over and the document as the body left it (doc)
Call(user, pEnabled, pStatus, pre, r) ==
    [user |-> user, pEnabled |-> pEnabled, pStatus |-> pStatus,
     pre |-> pre, outcome |-> r.outcome, mails |-> r.mails,
     doc |-> r.folder]

NoCall(folder) ==
    [user |-> NoId, pEnabled |-> Absent, pStatus |-> Absent,
     pre |-> folder, outcome |-> "none", mails |-> << >>,
     doc |-> folder]

NoFolder == NewFolder(FALSE, [e \in AccessEntries |-> AccessNone])
NoReq == [user |-> NoId, pEnabled |-> Absent, pStatus |-> Absent, mailOK |-> TRUE]

Init ==
    /\ \E public \in BOOLEAN, access \in InitAccess :
          db = NewFolder(public, access)
    /\ last = NoCall(db)
    /\ pc = [p \in Procs |-> "idle"]
    /\ local = [p \in Procs |-> NoFolder]
    /\ req = [p \in Procs |-> NoReq]
    /\ hist = [base |-> NoFolder, started |-> 0, calls |-> << >>]

\* a request the environment can make on the stored folder: the caller can
\* read it, and the notifier can only fail if the call reaches it
Acceptable(user, pEnabled, pStatus, mailOK) ==
    /\ Len(db.timeline) < MaxTimeline
    /\ CanRead(db, user)
    /\ (mailOK \/ setCuration(db, user, pEnabled, pStatus, TRUE).mails # << >>)

\* one PUT /folder/:id/curation request, start to end
SetCuration(user, pEnabled, pStatus, mailOK) ==
    /\ Acceptable(user, pEnabled, pStatus, mailOK)
    /\ LET r == setCuration(db, user, pEnabled, pStatus, mailOK)
       IN /\ db' = save(db, r)
          /\ last' = Call(user, pEnabled, pStatus, db, r)
    /\ UNCHANGED <<pc, local, req, hist>>

Next ==
    \E user \in Users, pEnabled \in EnabledParams, pStatus \in StatusParams,
       mailOK \in BOOLEAN :
        SetCuration(user, pEnabled, pStatus, mailOK)

Spec == Init /\ [][Next]_vars

\* ------------------------------------------- two request threads (SpecConc)
\* loadmodel: thread p reads the stored folder document for its request
Load(p, user, pEnabled, pStatus, mailOK) ==
    /\ pc[p] = "idle"
    /\ hist.started < MaxConcCalls
    /\ Acceptable(user, pEnabled, pStatus, mailOK)
    /\ pc' = [pc EXCEPT ![p] = "loaded"]
    /\ local' = [local EXCEPT ![p] = db]
    /\ req' = [req EXCEPT ![p] = [user |-> user, pEnabled |-> pEnabled,
                                  pStatus |-> pStatus, mailOK |-> mailOK]]
    /\ hist' = [hist EXCEPT !.started = @ + 1,
                           !.base = IF hist.started = 0 THEN db ELSE @]
    /\ UNCHANGED <<db, last>>

\* the body of setCuration on the document thread p loaded, up to the save
Finish(p) ==
    /\ pc[p] = "loaded"
    /\ LET r == setCuration(local[p], req[p].user, req[p].pEnabled,
                            req[p].pStatus, req[p].mailOK)
       IN /\ db' = save(db, r)
          /\ last' = Call(req[p].user, req[p].pEnabled, req[p].pStatus, local[p], r)
    /\ pc' = [pc EXCEPT ![p] = "idle"]
    /\ local' = [local EXCEPT ![p] = NoFolder]
    /\ req' = [req EXCEPT ![p] = NoReq]
    /\ hist' = [hist EXCEPT !.calls = Append(@, req[p])]

NextConc ==
    \E p \in Procs :
        \/ \E user \in Users, pEnabled \in EnabledParams,
              pStatus \in StatusParams, mailOK \in BOOLEAN :
                Load(p, user, pEnabled, pStatus, mailOK)
        \/ Finish(p)

SpecConc == Init /\ [][NextConc]_vars

\* ------------------------------------------- longer histories (SpecFlow)
\* the transition blocks of setCuration that a call with these parameters
\* enters on a loaded document
FiredBy(folder, pEnabled, pStatus) ==
    LET enabled == IF pEnabled # Absent THEN boolParam(pEnabled) ELSE folder.enabled
        status == IF pStatus # Absent THEN pStatus ELSE folder.status
    IN  (IF enabled /\ ~folder.enabled THEN {"enable"} ELSE {})
        \cup (IF ~enabled /\ folder.enabled THEN {"disable"} ELSE {})
        \cup (IF enabled /\ folder.status = CONSTRUCTION /\ status = REQUESTED
              THEN {"request"} ELSE {})
        \cup (IF enabled /\ folder.status = REQUESTED /\ status = APPROVED
              THEN {"approve"} ELSE {})
        \cup (IF enabled /\ folder.status = REQUESTED /\ status = CONSTRUCTION
              THEN {"reject"} ELSE {})
        \cup (IF enabled /\ folder.status = APPROVED /\ status = CONSTRUCTION
              THEN {"reopen"} ELSE {})

\* hist after a call on the stored folder: a saved call that enters the
\* request or the disable block opens a window (base: the folder it found);
\* the transitions of the saved calls that follow are added to the window;
\* a saved change of the record outside the blocks, or a window that is
\* full, closes it.  Calls that save nothing new leave hist alone.
Observe(h, folder, pEnabled, pStatus, r) ==
    LET fired == FiredBy(folder, pEnabled, pStatus)
        closed == [base |-> NoFolder, started |-> 0, calls |-> << >>]
    IN  IF r.outcome # "ok" THEN h
        ELSE IF fired \cap {"request", "disable"} # {}
        THEN [base |-> folder, started |-> 0, calls |-> << fired >>]
        ELSE IF fired # {}
        THEN IF h.calls # << >> /\ Len(h.calls) < MaxWindow
             THEN [h EXCEPT !.calls = Append(@, fired)]
             ELSE closed
        ELSE IF r.folder # [folder EXCEPT !.hasCuration = TRUE]
        THEN closed
        ELSE h

\* the requests of SpecFlow: one parameter per call, with a recognised value
FlowParams(pEnabled, pStatus) ==
    /\ (pEnabled = Absent) # (pStatus = Absent)
    /\ pStatus # OtherStatus

\* one PUT /folder/:id/curation request, start to end
FlowCall(user, pEnabled, pStatus, mailOK) ==
    /\ FlowParams(pEnabled, pStatus)
    /\ Len(db.timeline) < MaxFlowTimeline
    /\ CanRead(db, user)
    /\ (mailOK \/ setCuration(db, user, pEnabled, pStatus, TRUE).mails # << >>)
    /\ LET r == setCuration(db, user, pEnabled, pStatus, mailOK)
       IN /\ db' = save(db, r)
          /\ last' = Call(user, pEnabled, pStatus, db, r)
          /\ hist' = Observe(hist, db, pEnabled, pStatus, r)
    /\ UNCHANGED <<pc, local, req>>

NextFlow ==
    \E user \in Users, pEnabled \in EnabledParams, pStatus \in StatusParams,
       mailOK \in BOOLEAN :
        FlowCall(user, pEnabled, pStatus, mailOK)

SpecFlow == Init /\ [][NextFlow]_vars

\* ============================================================== properties
\* The call that completed last: its actor and parameters, the document it
\* worked on (last.pre) and the stored document after it (db).
Happened == last.outcome # "none"
Pre == last.pre

NewEnabled == IF last.pEnabled # Absent THEN last.pEnabled = "true" ELSE Pre.enabled
NewStatus == IF last.pStatus # Absent THEN last.pStatus ELSE Pre.status

\* the rows of the transition table that the call matches
EnableFires == NewEnabled /\ ~Pre.enabled
DisableFires == ~NewEnabled /\ Pre.enabled
RequestFires == NewEnabled /\ Pre.status = CONSTRUCTION /\ NewStatus = REQUESTED
ApproveFires == NewEnabled /\ Pre.status = REQUESTED /\ NewStatus = APPROVED
RejectFires == NewEnabled /\ Pre.status = REQUESTED /\ NewStatus = CONSTRUCTION
ReopenFires == NewEnabled /\ Pre.status = APPROVED /\ NewStatus = CONSTRUCTION

Fired ==
    {t \in {"enable", "disable", "request", "approve", "reject", "reopen"} :
        \/ t = "enable" /\ EnableFires
        \/ t = "disable" /\ DisableFires
        \/ t = "request" /\ RequestFires
        \/ t = "approve" /\ ApproveFires
        \/ t = "reject" /\ RejectFires
        \/ t = "reopen" /\ ReopenFires}

\* the four edges of the status graph
Edges == {<<CONSTRUCTION, REQUESTED>>, <<REQUESTED, APPROVED>>,
          <<REQUESTED, CONSTRUCTION>>, <<APPROVED, CONSTRUCTION>>}

IsPrefix(s, t) == Len(s) <= Len(t) /\ SubSeq(t, 1, Len(s)) = s

NoWriteEntry(folder) == \A e \in AccessEntries : folder.access[e] # AccessWrite

\* every change the transition table asks of the call is in the stored document
AllPersisted ==
    /\ db.hasCuration
    /\ db.enabled = NewEnabled
    /\ db.status = NewStatus
    /\ db.enableUserId = IF EnableFires THEN last.user ELSE Pre.enableUserId
    /\ db.requestUserId = IF RequestFires THEN last.user ELSE Pre.requestUserId
    /\ db.reviewUserId = IF ApproveFires \/ RejectFires THEN last.user
                         ELSE Pre.reviewUserId
    /\ IsPrefix(Pre.timeline, db.timeline)
    /\ Len(db.timeline) = Len(Pre.timeline) + Cardinality(Fired)
    /\ db.public = IF ApproveFires THEN TRUE
                   ELSE IF EnableFires \/ ReopenFires THEN FALSE
                   ELSE Pre.public
    /\ db.access = [e \in AccessEntries |->
                      IF RequestFires /\ Pre.access[e] = AccessWrite THEN AccessRead
                      ELSE IF (RejectFires \/ ReopenFires) /\ Pre.access[e] = AccessRead
                           THEN AccessWrite
                      ELSE Pre.access[e]]

\* the stored document is what the call found
NonePersisted == db = Pre

\* C1: a status change by a non-admin succeeds only when curation is enabled
\* and the change is Construction -> Requested; every other status change by
\* a non-admin is denied and leaves the stored record unchanged.
C1_NonAdminStatusRule ==
    (Happened /\ last.user \in NonAdmins
       /\ last.pStatus # Absent /\ last.pStatus # Pre.status)
    => LET allowed == /\ Pre.enabled
                      /\ Pre.status = CONSTRUCTION
                      /\ last.pStatus = REQUESTED
       IN /\ (last.outcome = "ok" => allowed)
          /\ (~allowed => last.outcome = "denied" /\ db = Pre)

\* C2: status is always one of the three recognised values, every change of
\* the stored status is one of the four edges, and a call that asks for any
\* other value or edge is rejected without changing status.
C2_StatusGraph ==
    /\ db.status \in Statuses
    /\ (db.status # Pre.status => <<Pre.status, db.status>> \in Edges)
    /\ ((last.pStatus # Absent /\ last.pStatus # Pre.status
           /\ <<Pre.status, last.pStatus>> \notin Edges)
        => last.outcome # "ok" /\ db.status = Pre.status)

C4_ChangeIsLogged ==
    (last.outcome = "ok" /\ (db.enabled # Pre.enabled \/ db.status # Pre.status))
    => Len(db.timeline) > Len(Pre.timeline)

\* C5: when the notification step of a call fails, the call's transition is
\* stored all the same: status, user ids, timeline entry, public flag and
\* access levels.
C5_NotificationFailureKeepsTransition ==
    last.outcome = "error" => AllPersisted /\ Fired # {}

\* C7: on an enabled record with status Requested, an admin's
\* setCuration(status=Approved) makes the folder public, sets reviewUserId
\* to the admin, appends exactly one timeline entry "approved request" and
\* sends exactly one notification, addressed to requestUserId.
C7_Approve ==
    (Happened /\ last.user \in Admins /\ Pre.enabled /\ Pre.status = REQUESTED
       /\ last.pEnabled = Absent /\ last.pStatus = APPROVED)
    => /\ db.public
       /\ db.reviewUserId = last.user
       /\ IsPrefix(Pre.timeline, db.timeline)
       /\ Len(db.timeline) = Len(Pre.timeline) + 1
       /\ db.timeline[Len(db.timeline)].text = "approved request"
       /\ last.mails = << [to |-> Pre.requestUserId,
                           template |-> "curation.approved.mako"] >>

\* C8: on an enabled record with status Construction, a non-admin's
\* setCuration(status=Requested) sets requestUserId to the actor, turns
\* every Write entry into Read, appends exactly one timeline entry and sends
\* exactly one notification, addressed to enableUserId.
C8_Request ==
    (Happened /\ last.user \in NonAdmins /\ Pre.enabled
       /\ Pre.status = CONSTRUCTION
       /\ last.pEnabled = Absent /\ last.pStatus = REQUESTED)
    => /\ db.requestUserId = last.user
       /\ db.access = [e \in AccessEntries |->
                         IF Pre.access[e] = AccessWrite THEN AccessRead
                         ELSE Pre.access[e]]
       /\ IsPrefix(Pre.timeline, db.timeline)
       /\ Len(db.timeline) = Len(Pre.timeline) + 1
       /\ last.mails = << [to |-> Pre.enableUserId,
                           template |-> "curation.requested.mako"] >>

\* C9: whenever the stored record is enabled with status Requested, no
\* access entry is at Write level.
C9_RequestedIsReadOnly ==
    (db.hasCuration /\ db.enabled /\ db.status = REQUESTED) => NoWriteEntry(db)

\* C10: a call is all-or-nothing on the stored folder: a call that reaches
\* the save stores the record update, the timeline entries, the public flag
\* and the access levels together; a denied call stores none of them; no
\* call stores a part.
C10_AllOrNothing ==
    Happened =>
        /\ last.outcome = "ok" => AllPersisted
        /\ last.outcome = "denied" => NonePersisted
        /\ AllPersisted \/ NonePersisted

C10_Witness ==
    /\ last.outcome = "ok"
    /\ EnableFires /\ RequestFires
    /\ Pre.public
    /\ ~NoWriteEntry(Pre)
    /\ NoWriteEntry(db)
    /\ Len(db.timeline) = Len(Pre.timeline) + 2

\* ------------------------------------------------------ C6 (under SpecConc)
\* a request run alone on a stored folder: refused by loadmodel or run to
\* its end
ApplyCall(folder, c) ==
    IF CanRead(folder, c.user)
    THEN save(folder, setCuration(folder, c.user, c.pEnabled, c.pStatus, c.mailOK))
    ELSE folder

RECURSIVE RunCalls(_, _)
RunCalls(folder, cs) ==
    IF cs = << >> THEN folder
    ELSE RunCalls(ApplyCall(folder, Head(cs)), Tail(cs))

\* the stored folders that running the completed requests one after the
\* other, in some order, can leave
SerialResults ==
    LET n == Len(hist.calls)
    IN {RunCalls(hist.base, [i \in 1..n |-> hist.calls[pi[i]]]) :
            pi \in Permutations(1..n)}

\* C6: when two requests on the folder have both completed, the stored
\* folder is what running them in some sequential order leaves.
C6_Serializable ==
    ((\A p \in Procs : pc[p] = "idle") /\ Len(hist.calls) >= 2)
    => db \in SerialResults

\* =================================================== properties, continued
\* the document as the body of the last call left it, saved or not
Doc == last.doc

\* the body of the last call ran to its transition blocks
Ran == last.outcome \in {"ok", "error"}

\* the timeline entries the last call appended to its document
NewEntries ==
    SubSeq(Doc.timeline, Len(Pre.timeline) + 1, Len(Doc.timeline))

\* C11: the timeline is append-only: the timeline before a call is a prefix
\* of the timeline after it, in the stored folder and in the call's document.
C11_TimelineAppendOnly ==
    Happened => /\ IsPrefix(Pre.timeline, db.timeline)
                /\ IsPrefix(Pre.timeline, Doc.timeline)

C11_Witness ==
    /\ last.outcome = "ok"
    /\ Len(Pre.timeline) >= 1
    /\ Len(db.timeline) > Len(Pre.timeline)

\* the text _addTimeline is given for each transition
TextOf(t) ==
    CASE t = "enable" -> "enabled curation"
      [] t = "disable" -> "disabled curation"
      [] t = "request" -> "requested approval"
      [] t = "approve" -> "approved request"
      [] t = "reject" -> "rejected request"
      [] t = "reopen" -> "reopened folder"

\* C12: each transition that fires in a call appends exactly one timeline
\* entry; its oldEnabled/oldStatus are the record's values when the call
\* started and its enabled/status the record's values when the call ended,
\* also when an enabled change and a status change fire in the same call.
C12_OneEntryPerTransition ==
    (Happened /\ Ran) =>
        /\ Doc.enabled = NewEnabled
        /\ Doc.status = NewStatus
        /\ Len(NewEntries) = Cardinality(Fired)
        /\ {NewEntries[i].text : i \in 1..Len(NewEntries)} = {TextOf(t) : t \in Fired}
        /\ \A i \in 1..Len(NewEntries) :
              /\ NewEntries[i].oldEnabled = Pre.enabled
              /\ NewEntries[i].oldStatus = Pre.status
              /\ NewEntries[i].enabled = Doc.enabled
              /\ NewEntries[i].status = Doc.status
              /\ NewEntries[i].userId = last.user
        /\ (last.outcome = "ok" => db.timeline = Doc.timeline)

C12_Witness ==
    /\ last.outcome = "ok"
    /\ EnableFires /\ RequestFires
    /\ Len(NewEntries) = 2
    /\ NewEntries[1].text = "enabled curation"
    /\ NewEntries[1].status = REQUESTED
    /\ NewEntries[2].text = "requested approval"
    /\ NewEntries[2].oldEnabled = FALSE

\* C13: a call whose status equals the record's current status, without the
\* enabled parameter (the same status submitted a second time), adds no
\* timeline entry, changes no access level, public flag or user id and
\* sends no notification.
C13_SameStatusIsNoOp ==
    (Happened /\ last.pEnabled = Absent /\ last.pStatus # Absent
       /\ last.pStatus = Pre.status)
    => /\ db.timeline = Pre.timeline
       /\ db.access = Pre.access
       /\ db.public = Pre.public
       /\ db.enableUserId = Pre.enableUserId
       /\ db.requestUserId = Pre.requestUserId
       /\ db.reviewUserId = Pre.reviewUserId
       /\ db.status = Pre.status
       /\ db.enabled = Pre.enabled
       /\ last.mails = << >>
       /\ Doc.timeline = Pre.timeline
       /\ Doc.access = Pre.access

\* u1 requested approval on the enabled record; an admin submits Requested
\* again and the call reaches save
C13_Witness ==
    /\ last.outcome = "ok"
    /\ last.pEnabled = Absent
    /\ last.pStatus = REQUESTED
    /\ Pre.hasCuration /\ Pre.enabled /\ Pre.status = REQUESTED
    /\ Pre.requestUserId = "u1"
    /\ Pre.timeline[Len(Pre.timeline)].text = "requested approval"

\* the access list after every Read entry was raised to Write
Raised(access) ==
    [e \in AccessEntries |->
        IF access[e] = AccessRead THEN AccessWrite ELSE access[e]]

C17_Enable ==
    (Happened /\ last.user \in Admins /\ ~Pre.enabled
       /\ Pre.status = CONSTRUCTION
       /\ last.pEnabled = "true" /\ last.pStatus = Absent)
    => /\ last.outcome = "ok"
       /\ db.enabled
       /\ ~db.public
       /\ db.enableUserId = last.user
       /\ db.timeline = Append(Pre.timeline,
             [userId |-> last.user, text |-> "enabled curation",
              oldEnabled |-> FALSE, oldStatus |-> CONSTRUCTION,
              enabled |-> TRUE, status |-> CONSTRUCTION])
       /\ db.status = CONSTRUCTION
       /\ db.access = Pre.access
       /\ last.mails = << >>

C17_Witness ==
    /\ last.outcome = "ok"
    /\ last.user \in Admins
    /\ last.pEnabled = "true" /\ last.pStatus = Absent
    /\ ~Pre.enabled /\ Pre.status = CONSTRUCTION
    /\ Pre.public
    /\ ~db.public

\* C18: in every state reached from a folder without a record by
\* setCuration calls, enabled = true implies that enableUserId is set.
C18_EnabledHasEnableUser ==
    db.enabled => db.enableUserId \in Users

\* a request for approval on an enabled record found its recipient
C18_Witness ==
    /\ last.outcome = "ok"
    /\ Pre.enabled /\ RequestFires
    /\ db.enabled
    /\ last.mails = << [to |-> db.enableUserId,
                        template |-> "curation.requested.mako"] >>

\* C20: right after a reject or reopen transition fires no access entry is
\* at Read level: every entry that was at Read, also one that was at Read
\* before the approval request, is at Write, and entries at None or Admin
\* are unchanged.
C20_NoReadAfterRejectOrReopen ==
    (Happened /\ Ran /\ (RejectFires \/ ReopenFires))
    => /\ \A e \in AccessEntries :
             /\ Doc.access[e] # AccessRead
             /\ (Pre.access[e] = AccessRead => Doc.access[e] = AccessWrite)
             /\ (Pre.access[e] # AccessRead => Doc.access[e] = Pre.access[e])
       /\ (last.outcome = "ok" => db.access = Doc.access)

C20_Witness ==
    /\ last.outcome = "ok"
    /\ RejectFires \/ ReopenFires
    /\ Pre.access["g1"] = AccessRead
    /\ Pre.access["u1"] = AccessNone
    /\ db.access["g1"] = AccessWrite
    /\ db.access["u1"] = AccessNone

\* ------------------------------------------------ C14, C16, C19 (SpecFlow)
\* hist.base is the folder a request (or a disable) found, hist.calls the
\* transitions of the saved calls from that one on.

\* C14: on an enabled record, request followed by approve followed by
\* reopen returns status to Construction and returns every access entry
\* that the request changed from Write to Read back to Write.
C14_RoundTrip ==
    (hist.calls = << {"request"}, {"approve"}, {"reopen"} >> /\ hist.base.enabled)
    => /\ db.status = CONSTRUCTION
       /\ \A e \in AccessEntries :
             hist.base.access[e] = AccessWrite => db.access[e] = AccessWrite

C14_Witness ==
    /\ hist.calls = << {"request"}, {"approve"}, {"reopen"} >>
    /\ hist.base.enabled
    /\ hist.base.access["u1"] = AccessWrite
    /\ Pre.access["u1"] = AccessRead
    /\ db.access["u1"] = AccessWrite
    /\ db.status = CONSTRUCTION

\* C16: requestUserId is written only by a call in which status enters
\* Requested; once set, no approve, reject, reopen, enable or disable call
\* clears or overwrites it.
C16_RequestUserIdFrame ==
    Happened =>
        /\ (db.requestUserId # Pre.requestUserId =>
              /\ Pre.status # REQUESTED
              /\ db.status = REQUESTED
              /\ db.requestUserId = last.user)
        /\ (Pre.requestUserId # NoId => db.requestUserId # NoId)
        /\ ((Pre.requestUserId # NoId /\ ~RequestFires) =>
              db.requestUserId = Pre.requestUserId)

\* an admin approves the request of u1 and u1 stays the requester
C16_Witness ==
    /\ last.outcome = "ok"
    /\ ApproveFires
    /\ last.user = "a1"
    /\ Pre.requestUserId = "u1"
    /\ db.requestUserId = "u1"
    /\ db.reviewUserId = "a1"

\* C19: a disable call (enabled true -> false, no status parameter) changes
\* only the enabled flag and the timeline; a pending Requested status, the
\* user ids and the (read-only) access levels are as before after a disable
\* followed by a re-enable.
C19_DisableFrame ==
    /\ (Happened /\ last.user \in Admins /\ Pre.enabled
          /\ last.pEnabled = "false" /\ last.pStatus = Absent)
       => /\ last.outcome = "ok"
          /\ db = [Pre EXCEPT !.enabled = FALSE,
                              !.timeline = Append(@,
                                  [userId |-> last.user,
                                   text |-> "disabled curation",
                                   oldEnabled |-> TRUE,
                                   oldStatus |-> Pre.status,
                                   enabled |-> FALSE,
                                   status |-> Pre.status])]
          /\ last.mails = << >>
    /\ hist.calls = << {"disable"}, {"enable"} >>
       => /\ db.enabled
          /\ db.status = hist.base.status
          /\ db.access = hist.base.access
          /\ db.requestUserId = hist.base.requestUserId
          /\ db.reviewUserId = hist.base.reviewUserId

\* a request of u1 is pending, curation is disabled and enabled again
C19_Witness ==
    /\ hist.calls = << {"disable"}, {"enable"} >>
    /\ hist.base.enabled
    /\ hist.base.status = REQUESTED
    /\ hist.base.requestUserId = "u1"
    /\ hist.base.access["u1"] = AccessRead
    /\ db.enabled
    /\ db.status = REQUESTED
    /\ db.access["u1"] = AccessRead
====
